---- MODULE Spec2Model ----
(***************************************************************************)
(* SPARC DAG->DAG instruction selector (SparcISelDAGToDAG.cpp).            *)
(*                                                                         *)
(* The selection DAG is a sequence of nodes; a node is addressed by its    *)
(* position and an SDValue is a pair <<node, result number>>.  The         *)
(* operations are the dispatcher Select, the two complex-pattern           *)
(* predicates SelectADDRri / SelectADDRrr and the inline-asm memory        *)
(* operand resolver SelectInlineAsmMemoryOperand.                          *)
(***************************************************************************)
EXTENDS Integers, Sequences, FiniteSets, TLC

VARIABLES dag, PtrVT, last

vars == <<dag, PtrVT, last>>

(***************************************************************************)
(* Bounds of the model.                                                    *)
(***************************************************************************)
\* frame slots are numbered 0..MaxSlot
MaxSlot == 1
\* a caller's operand vector holds 0..MaxPreOps operands before a call
MaxPreOps == 1

(***************************************************************************)
(* Program constants.                                                      *)
(***************************************************************************)
\* isInt<13>: width of the signed immediate field
ImmBits == 13
\* shift amount of the SRAri that seeds Y for a signed divide
SignShift == 31

\* an APInt is kept as little-endian limbs of 16 bits
Limb == 2 ^ 16
ImmLimit == 2 ^ (ImmBits - 1)

(***************************************************************************)
(* APInt arithmetic on limbs.                                              *)
(***************************************************************************)
\* number of limbs of an integer value type
NumLimbs(vt) == IF vt = "i64" THEN 4 ELSE 2

\* the two's complement pattern of the integer c in a type of n limbs
EncodeAP(c, n) ==
  [k \in 1..n |->
     IF k = 1 THEN c % Limb
     ELSE IF k = 2 THEN (c \div Limb) % Limb
     ELSE IF c < 0 THEN Limb - 1 ELSE 0]

\* ConstantSDNode::getSExtValue: the pattern sign-extended to 64 bits
getSExtValue(ap) ==
  [k \in 1..4 |->
     IF k <= Len(ap) THEN ap[k]
     ELSE IF ap[Len(ap)] >= Limb \div 2 THEN Limb - 1 ELSE 0]

\* ConstantSDNode::getZExtValue: the pattern zero-extended to 64 bits
getZExtValue(ap) ==
  [k \in 1..4 |-> IF k <= Len(ap) THEN ap[k] ELSE 0]

\* isInt<13> with the upper edge of the range taken inclusively
isInt13_Inclusive(x) ==
  \/ x[4] = 0 /\ x[3] = 0 /\ x[2] = 0 /\ x[1] <= ImmLimit
  \/ x[4] = Limb - 1 /\ x[3] = Limb - 1 /\ x[2] = Limb - 1
       /\ x[1] >= Limb - ImmLimit

\* isInt<13>(x) for a 64-bit x: -2^12 <= x < 2^12
isInt13(x) ==
  \/ x[4] = 0 /\ x[3] = 0 /\ x[2] = 0 /\ x[1] < ImmLimit
  \/ x[4] = Limb - 1 /\ x[3] = Limb - 1 /\ x[2] = Limb - 1
       /\ x[1] >= Limb - ImmLimit

\* APInt(32, x): the low 32 bits of a 64-bit x
TruncAP32(x) == <<x[1], x[2]>>

\* the signed integer denoted by a 32-bit pattern
SignedOf32(ap) ==
  ap[1] + Limb * (IF ap[2] >= Limb \div 2 THEN ap[2] - Limb ELSE ap[2])

(***************************************************************************)
(* Nodes and values.                                                       *)
(***************************************************************************)
\* SDValue(): the null value
NullVal == <<0, 0>>

NoImm == <<>>

\* a node: opcode, machine-opcode flag, result types, operands, payload
\* (constant pattern / frame index / register) and NodeId
MkNode(opc, machine, vts, ops, imm, idx, reg, id) ==
  [opc |-> opc, machine |-> machine, vts |-> vts, ops |-> ops,
   imm |-> imm, idx |-> idx, reg |-> reg, id |-> id]

Nodes(g) == 1..Len(g)

\* SDValue::getOpcode; a machine node has no ISD opcode
getOpcode(g, v) == IF g[v[1]].machine THEN "MachineOpcode" ELSE g[v[1]].opc

\* SDValue::getOperand
getOperand(g, v, i) == g[v[1]].ops[i + 1]

\* dyn_cast<FrameIndexSDNode>: FrameIndexSDNode::classof
isFrameIndex(g, v) ==
  getOpcode(g, v) = "FrameIndex" \/ getOpcode(g, v) = "TargetFrameIndex"

\* dyn_cast<ConstantSDNode>: ConstantSDNode::classof
isConstant(g, v) ==
  getOpcode(g, v) = "Constant" \/ getOpcode(g, v) = "TargetConstant"

\* the direct-call test without the TLS case
isDirectTarget_NoTLS(g, v) ==
  \/ getOpcode(g, v) = "TargetExternalSymbol"
  \/ getOpcode(g, v) = "TargetGlobalAddress"

\* the three target-level symbol opcodes used for direct calls
isDirectTarget(g, v) ==
  \/ getOpcode(g, v) = "TargetExternalSymbol"
  \/ getOpcode(g, v) = "TargetGlobalAddress"
  \/ getOpcode(g, v) = "TargetGlobalTLSAddress"

\* SelectionDAG node creation through the CSE map: an identical node is
\* reused, otherwise the node is appended with NodeId -1
getNodeCSE(g, rec) ==
  IF \E i \in Nodes(g) : [g[i] EXCEPT !.id = -1] = rec
  THEN [g |-> g,
        n |-> CHOOSE i \in Nodes(g) : [g[i] EXCEPT !.id = -1] = rec]
  ELSE [g |-> Append(g, rec), n |-> Len(g) + 1]

\* node creation for nodes with a glue result, which are never CSE'd
getNodeNew(g, rec) == [g |-> Append(g, rec), n |-> Len(g) + 1]

getTargetFrameIndex(g, fi, vt) ==
  getNodeCSE(g, MkNode("TargetFrameIndex", FALSE, <<vt>>, <<>>, NoImm,
                       fi, "", -1))

getTargetConstant(g, x) ==
  getNodeCSE(g, MkNode("TargetConstant", FALSE, <<"i32">>, <<>>,
                       TruncAP32(x), -1, "", -1))

getRegister(g, r, vt) ==
  getNodeCSE(g, MkNode("Register", FALSE, <<vt>>, <<>>, NoImm, -1, r, -1))

getMachineNode(g, opc, vts, ops) ==
  LET rec == MkNode(opc, TRUE, vts, ops, NoImm, -1, "", -1)
  IN  IF vts[Len(vts)] = "Glue" THEN getNodeNew(g, rec)
      ELSE getNodeCSE(g, rec)

(***************************************************************************)
(* Addressing-mode predicates.  Each takes the caller's current values of  *)
(* its two reference parameters and returns the result, the values of the  *)
(* reference parameters on return, and the DAG.                            *)
(***************************************************************************)
AddrResult(ret, a, b, g) == [ret |-> ret, a |-> a, b |-> b, g |-> g]

\* SelectADDRri handing on the first operand of the add as it is
SelectADDRri_RawBase(g, Addr, Base, Offset, pvt) ==
  IF isFrameIndex(g, Addr)
  THEN LET b == getTargetFrameIndex(g, g[Addr[1]].idx, pvt)
           o == getTargetConstant(b.g, EncodeAP(0, 4))
       IN  AddrResult(TRUE, <<b.n, 0>>, <<o.n, 0>>, o.g)
  ELSE IF isDirectTarget(g, Addr)
  THEN AddrResult(FALSE, Base, Offset, g)
  ELSE IF getOpcode(g, Addr) = "ADD"
          /\ isConstant(g, getOperand(g, Addr, 1))
          /\ isInt13(getSExtValue(g[getOperand(g, Addr, 1)[1]].imm))
  THEN LET CN == g[getOperand(g, Addr, 1)[1]]
           b == IF isFrameIndex(g, getOperand(g, Addr, 0))
                THEN getTargetFrameIndex(g, g[getOperand(g, Addr, 0)[1]].idx,
                                         pvt)
                ELSE [g |-> g, n |-> 0]
           bv == getOperand(g, Addr, 0)
           o == getTargetConstant(b.g, getZExtValue(CN.imm))
       IN  AddrResult(TRUE, bv, <<o.n, 0>>, o.g)
  ELSE IF getOpcode(g, Addr) = "ADD"
          /\ getOpcode(g, getOperand(g, Addr, 0)) = "SPISD::Lo"
  THEN AddrResult(TRUE, getOperand(g, Addr, 1),
                  getOperand(g, getOperand(g, Addr, 0), 0), g)
  ELSE IF getOpcode(g, Addr) = "ADD"
          /\ getOpcode(g, getOperand(g, Addr, 1)) = "SPISD::Lo"
  THEN AddrResult(TRUE, getOperand(g, Addr, 0),
                  getOperand(g, getOperand(g, Addr, 1), 0), g)
  ELSE LET o == getTargetConstant(g, EncodeAP(0, 4))
       IN  AddrResult(TRUE, Addr, <<o.n, 0>>, o.g)

SelectADDRri(g, Addr, Base, Offset, pvt) ==
  IF isFrameIndex(g, Addr)
  THEN LET b == getTargetFrameIndex(g, g[Addr[1]].idx, pvt)
           o == getTargetConstant(b.g, EncodeAP(0, 4))
       IN  AddrResult(TRUE, <<b.n, 0>>, <<o.n, 0>>, o.g)
  ELSE IF isDirectTarget(g, Addr)
  THEN AddrResult(FALSE, Base, Offset, g)
  ELSE IF getOpcode(g, Addr) = "ADD"
          /\ isConstant(g, getOperand(g, Addr, 1))
          /\ isInt13(getSExtValue(g[getOperand(g, Addr, 1)[1]].imm))
  THEN LET CN == g[getOperand(g, Addr, 1)[1]]
           b == IF isFrameIndex(g, getOperand(g, Addr, 0))
                THEN getTargetFrameIndex(g, g[getOperand(g, Addr, 0)[1]].idx,
                                         pvt)
                ELSE [g |-> g, n |-> 0]
           bv == IF isFrameIndex(g, getOperand(g, Addr, 0))
                 THEN <<b.n, 0>>
                 ELSE getOperand(g, Addr, 0)
           o == getTargetConstant(b.g, getZExtValue(CN.imm))
       IN  AddrResult(TRUE, bv, <<o.n, 0>>, o.g)
  ELSE IF getOpcode(g, Addr) = "ADD"
          /\ getOpcode(g, getOperand(g, Addr, 0)) = "SPISD::Lo"
  THEN AddrResult(TRUE, getOperand(g, Addr, 1),
                  getOperand(g, getOperand(g, Addr, 0), 0), g)
  ELSE IF getOpcode(g, Addr) = "ADD"
          /\ getOpcode(g, getOperand(g, Addr, 1)) = "SPISD::Lo"
  THEN AddrResult(TRUE, getOperand(g, Addr, 0),
                  getOperand(g, getOperand(g, Addr, 1), 0), g)
  ELSE LET o == getTargetConstant(g, EncodeAP(0, 4))
       IN  AddrResult(TRUE, Addr, <<o.n, 0>>, o.g)

\* SelectADDRrr testing only the first operand of the add for SPISD::Lo
SelectADDRrr_LoFirstOnly(g, Addr, R1, R2, pvt) ==
  IF getOpcode(g, Addr) = "FrameIndex"
  THEN AddrResult(FALSE, R1, R2, g)
  ELSE IF isDirectTarget(g, Addr)
  THEN AddrResult(FALSE, R1, R2, g)
  ELSE IF getOpcode(g, Addr) = "ADD"
  THEN IF /\ isConstant(g, getOperand(g, Addr, 1))
          /\ isInt13(getSExtValue(g[getOperand(g, Addr, 1)[1]].imm))
       THEN AddrResult(FALSE, R1, R2, g)
       ELSE IF getOpcode(g, getOperand(g, Addr, 0)) = "SPISD::Lo"
       THEN AddrResult(FALSE, R1, R2, g)
       ELSE AddrResult(TRUE, getOperand(g, Addr, 0), getOperand(g, Addr, 1),
                       g)
  ELSE LET r == getRegister(g, "G0", pvt)
       IN  AddrResult(TRUE, Addr, <<r.n, 0>>, r.g)

\* SelectADDRrr without the frame-index test
SelectADDRrr_NoFrameCheck(g, Addr, R1, R2, pvt) ==
  IF isDirectTarget(g, Addr)
  THEN AddrResult(FALSE, R1, R2, g)
  ELSE IF getOpcode(g, Addr) = "ADD"
  THEN IF /\ isConstant(g, getOperand(g, Addr, 1))
          /\ isInt13(getSExtValue(g[getOperand(g, Addr, 1)[1]].imm))
       THEN AddrResult(FALSE, R1, R2, g)
       ELSE IF \/ getOpcode(g, getOperand(g, Addr, 0)) = "SPISD::Lo"
               \/ getOpcode(g, getOperand(g, Addr, 1)) = "SPISD::Lo"
       THEN AddrResult(FALSE, R1, R2, g)
       ELSE AddrResult(TRUE, getOperand(g, Addr, 0), getOperand(g, Addr, 1),
                       g)
  ELSE LET r == getRegister(g, "G0", pvt)
       IN  AddrResult(TRUE, Addr, <<r.n, 0>>, r.g)

SelectADDRrr(g, Addr, R1, R2, pvt) ==
  IF getOpcode(g, Addr) = "FrameIndex"
  THEN AddrResult(FALSE, R1, R2, g)
  ELSE IF isDirectTarget(g, Addr)
  THEN AddrResult(FALSE, R1, R2, g)
  ELSE IF getOpcode(g, Addr) = "ADD"
  THEN IF /\ isConstant(g, getOperand(g, Addr, 1))
          /\ isInt13(getSExtValue(g[getOperand(g, Addr, 1)[1]].imm))
       THEN AddrResult(FALSE, R1, R2, g)
       ELSE IF \/ getOpcode(g, getOperand(g, Addr, 0)) = "SPISD::Lo"
               \/ getOpcode(g, getOperand(g, Addr, 1)) = "SPISD::Lo"
       THEN AddrResult(FALSE, R1, R2, g)
       ELSE AddrResult(TRUE, getOperand(g, Addr, 0), getOperand(g, Addr, 1),
                       g)
  ELSE LET r == getRegister(g, "G0", pvt)
       IN  AddrResult(TRUE, Addr, <<r.n, 0>>, r.g)

(***************************************************************************)
(* The dispatcher.                                                         *)
(***************************************************************************)
\* SelectionDAG::getCopyToReg(Chain, dl, Reg, N, Glue) with a null Glue:
\* a CopyToReg node with results (Other, Glue) and operands
\* (Chain, Register, N)
getCopyToReg(g, Chain, r, N) ==
  LET rg == getRegister(g, r, g[N[1]].vts[N[2] + 1])
  IN  getNodeNew(rg.g, MkNode("CopyToReg", FALSE, <<"Other", "Glue">>,
                              <<Chain, <<rg.n, 0>>, N>>, NoImm, -1, "", -1))

\* SelectionDAG::SelectNodeTo: N is morphed in place into the machine
\* node and its NodeId is reset
SelectNodeTo(g, N, opc, vts, ops) ==
  [g EXCEPT ![N] = MkNode(opc, TRUE, vts, ops, NoImm, -1, "", -1)]

SelectResult(kind, n, g) == [kind |-> kind, n |-> n, g |-> g]

\* getGlobalBaseReg: the register node of the function's base register
getGlobalBaseReg(g, pvt) == getRegister(g, "GlobalBaseReg", pvt)

\* the generated matcher; the node is handed over as it is
SelectCode(g, N) == SelectResult("SelectCode", N, g)

\* the division with the divide ordered after WRASRrr directly
SelectDiv_NoCopy(g, N) ==
  LET DivLHS == g[N].ops[1]
      DivRHS == g[N].ops[2]
      signed == g[N].opc = "SDIV"
      c31 == getTargetConstant(g, EncodeAP(SignShift, 4))
      sra == getMachineNode(c31.g, "SRAri", <<"i32">>,
                            <<DivLHS, <<c31.n, 0>>>>)
      g0a == getRegister(g, "G0", "i32")
      top1 == IF signed THEN [g |-> sra.g, v |-> <<sra.n, 0>>]
              ELSE [g |-> g0a.g, v |-> <<g0a.n, 0>>]
      g0b == getRegister(top1.g, "G0", "i32")
      wr == getMachineNode(g0b.g, "WRASRrr", <<"i32">>,
                           <<top1.v, <<g0b.n, 0>>>>)
      cp == getCopyToReg(wr.g, <<wr.n, 0>>, "Y", <<wr.n, 0>>)
      Opcode == IF signed THEN "SDIVrr" ELSE "UDIVrr"
  IN  SelectResult("node", N,
                   SelectNodeTo(cp.g, N, Opcode, <<"i32">>,
                                <<DivLHS, DivRHS, <<wr.n, 0>>>>))

\* case ISD::SDIV / ISD::UDIV with a result type other than i64
SelectDiv(g, N) ==
  LET DivLHS == g[N].ops[1]
      DivRHS == g[N].ops[2]
      signed == g[N].opc = "SDIV"
      c31 == getTargetConstant(g, EncodeAP(SignShift, 4))
      sra == getMachineNode(c31.g, "SRAri", <<"i32">>,
                            <<DivLHS, <<c31.n, 0>>>>)
      g0a == getRegister(g, "G0", "i32")
      top1 == IF signed THEN [g |-> sra.g, v |-> <<sra.n, 0>>]
              ELSE [g |-> g0a.g, v |-> <<g0a.n, 0>>]
      g0b == getRegister(top1.g, "G0", "i32")
      wr == getMachineNode(g0b.g, "WRASRrr", <<"i32">>,
                           <<top1.v, <<g0b.n, 0>>>>)
      cp == getCopyToReg(wr.g, <<wr.n, 0>>, "Y", <<wr.n, 0>>)
      Opcode == IF signed THEN "SDIVrr" ELSE "UDIVrr"
  IN  SelectResult("node", N,
                   SelectNodeTo(cp.g, N, Opcode, <<"i32">>,
                                <<DivLHS, DivRHS, <<cp.n, 1>>>>))

\* the high-part multiply with the opcodes of the two signednesses swapped
SelectMulh_Swapped(g, N) ==
  LET MulLHS == g[N].ops[1]
      MulRHS == g[N].ops[2]
      Opcode == IF g[N].opc = "MULHU" THEN "SMULrr" ELSE "UMULrr"
      Mul == getMachineNode(g, Opcode, <<"i32", "Glue">>, <<MulLHS, MulRHS>>)
      y == getRegister(Mul.g, "Y", "i32")
  IN  SelectResult("node", N,
                   SelectNodeTo(y.g, N, "RDASR", <<"i32">>,
                                <<<<y.n, 0>>, <<Mul.n, 1>>>>))

\* case ISD::MULHU / ISD::MULHS
SelectMulh(g, N) ==
  LET MulLHS == g[N].ops[1]
      MulRHS == g[N].ops[2]
      Opcode == IF g[N].opc = "MULHU" THEN "UMULrr" ELSE "SMULrr"
      Mul == getMachineNode(g, Opcode, <<"i32", "Glue">>, <<MulLHS, MulRHS>>)
      y == getRegister(Mul.g, "Y", "i32")
  IN  SelectResult("node", N,
                   SelectNodeTo(y.g, N, "RDASR", <<"i32">>,
                                <<<<y.n, 0>>, <<Mul.n, 1>>>>))

\* the dispatcher without the test of the 64-bit result type
Select_AnyWidth(g, N, pvt) ==
  IF g[N].machine
  THEN SelectResult("nullptr", 0, [g EXCEPT ![N].id = -1])
  ELSE IF g[N].opc = "SPISD::GLOBAL_BASE_REG"
  THEN LET r == getGlobalBaseReg(g, pvt) IN SelectResult("node", r.n, r.g)
  ELSE IF g[N].opc \in {"SDIV", "UDIV"}
  THEN SelectDiv(g, N)
  ELSE IF g[N].opc \in {"MULHU", "MULHS"}
  THEN SelectMulh(g, N)
  ELSE SelectCode(g, N)

\* the dispatcher without the test for an already selected node
Select_Reprocess(g, N, pvt) ==
  IF g[N].opc = "SPISD::GLOBAL_BASE_REG"
  THEN LET r == getGlobalBaseReg(g, pvt) IN SelectResult("node", r.n, r.g)
  ELSE IF g[N].opc \in {"SDIV", "UDIV"} /\ g[N].vts[1] # "i64"
  THEN SelectDiv(g, N)
  ELSE IF g[N].opc \in {"MULHU", "MULHS"}
  THEN SelectMulh(g, N)
  ELSE SelectCode(g, N)

Select(g, N, pvt) ==
  IF g[N].machine
  THEN SelectResult("nullptr", 0, [g EXCEPT ![N].id = -1])
  ELSE IF g[N].opc = "SPISD::GLOBAL_BASE_REG"
  THEN LET r == getGlobalBaseReg(g, pvt) IN SelectResult("node", r.n, r.g)
  ELSE IF g[N].opc \in {"SDIV", "UDIV"} /\ g[N].vts[1] # "i64"
  THEN SelectDiv(g, N)
  ELSE IF g[N].opc \in {"MULHU", "MULHS"}
  THEN SelectMulh(g, N)
  ELSE SelectCode(g, N)

(***************************************************************************)
(* Inline-asm memory operands.  The result is TRUE when the constraint is  *)
(* rejected.                                                               *)
(***************************************************************************)
\* the resolver with the default case falling out of the switch
SelectInlineAsmMemoryOperand_NoReject(g, Op, ConstraintID, Out, pvt) ==
  IF ConstraintID \notin {"Constraint_i", "Constraint_m"}
  THEN [ret |-> FALSE, out |-> Append(Append(Out, NullVal), NullVal),
        g |-> g, calls |-> <<>>]
  ELSE LET rr == SelectADDRrr(g, Op, NullVal, NullVal, pvt)
           ri == SelectADDRri(rr.g, Op, rr.a, rr.b, pvt)
           r == IF rr.ret THEN rr ELSE ri
       IN  [ret |-> FALSE,
            out |-> Append(Append(Out, r.a), r.b),
            g |-> r.g,
            calls |-> IF rr.ret THEN <<"SelectADDRrr">>
                      ELSE <<"SelectADDRrr", "SelectADDRri">>]

SelectInlineAsmMemoryOperand(g, Op, ConstraintID, Out, pvt) ==
  IF ConstraintID \notin {"Constraint_i", "Constraint_m"}
  THEN [ret |-> TRUE, out |-> Out, g |-> g, calls |-> <<>>]
  ELSE LET rr == SelectADDRrr(g, Op, NullVal, NullVal, pvt)
           ri == SelectADDRri(rr.g, Op, rr.a, rr.b, pvt)
           r == IF rr.ret THEN rr ELSE ri
       IN  [ret |-> FALSE,
            out |-> Append(Append(Out, r.a), r.b),
            g |-> r.g,
            calls |-> IF rr.ret THEN <<"SelectADDRrr">>
                      ELSE <<"SelectADDRrr", "SelectADDRri">>]

(***************************************************************************)
(* Initial DAGs: node 1 is a direct relocation target, nodes 2 and 3 are   *)
(* the operands X and Y of the root node 4.  NodeIds are the topological   *)
(* order assigned before selection starts.                                 *)
(***************************************************************************)
\* constants around the edges of the signed 13-bit range
ConstVals == {-ImmLimit - 1, -ImmLimit, 16, ImmLimit - 1, ImmLimit,
              2 * ImmLimit}

VTs == {"i32", "i64"}

DirectOpcs ==
  {"TargetExternalSymbol", "TargetGlobalAddress", "TargetGlobalTLSAddress"}

Leaf(opc, vt, id) == MkNode(opc, FALSE, <<vt>>, <<>>, NoImm, -1, "", id)

FrameIndexNode(fi, vt, id) ==
  MkNode("FrameIndex", FALSE, <<vt>>, <<>>, NoImm, fi, "", id)

ConstantNode(c, vt, id) ==
  MkNode("Constant", FALSE, <<vt>>, <<>>, EncodeAP(c, NumLimbs(vt)), -1, "",
         id)

LoNode(vt, id) ==
  MkNode("SPISD::Lo", FALSE, <<vt>>, <<<<1, 0>>>>, NoImm, -1, "", id)

XNodes(vt) ==
  {FrameIndexNode(fi, vt, 1) : fi \in 0..MaxSlot}
    \cup {Leaf("CopyFromReg", vt, 1), LoNode(vt, 1)}

YNodes(vt) ==
  {ConstantNode(c, vt, 2) : c \in ConstVals}
    \cup {Leaf("CopyFromReg", vt, 2), LoNode(vt, 2)}

\* address roots: an add of X and Y of pointer type
AddrRoots(vt) ==
  {MkNode("ADD", FALSE, <<vt>>, <<<<2, 0>>, <<3, 0>>>>, NoImm, -1, "", 3)}

\* arithmetic roots: divisions of either width, high-part multiplies,
\* the base-register request, a load and an already selected instruction
ArithRoots(vt) ==
  {MkNode(opc, FALSE, <<t>>, <<<<2, 0>>, <<3, 0>>>>, NoImm, -1, "", 3) :
     opc \in {"SDIV", "UDIV"}, t \in {"i32", vt}}
    \cup {MkNode(opc, FALSE, <<"i32">>, <<<<2, 0>>, <<3, 0>>>>, NoImm, -1, "",
                 3) : opc \in {"MULHU", "MULHS"}}
    \cup {MkNode("SPISD::GLOBAL_BASE_REG", FALSE, <<vt>>, <<>>, NoImm, -1,
                 "", 3),
          MkNode("LOAD", FALSE, <<vt>>, <<<<2, 0>>>>, NoImm, -1, "", 3),
          MkNode("ADDrr", TRUE, <<vt>>, <<<<2, 0>>, <<3, 0>>>>, NoImm, -1,
                 "", 3)}

InitDags(vt) ==
  {<<Leaf("TargetGlobalAddress", vt, 0), x, y, r>> :
     x \in XNodes(vt), y \in YNodes(vt), r \in AddrRoots(vt)}
    \cup
  {<<Leaf(d, vt, 0), Leaf("CopyFromReg", vt, 1), ConstantNode(16, vt, 2),
     r>> : d \in DirectOpcs, r \in ArithRoots(vt)}

\* the nodes of the DAG handed to the selector
InputNodes == 1..4

(***************************************************************************)
(* The state machine.  last records the most recent call: the function,    *)
(* its node argument, the constraint, the result, the values of the two    *)
(* reference parameters before and after, the operand vector before and    *)
(* after, the node as it was before the call, the number of nodes before   *)
(* the call, and the predicates the call invoked.                          *)
(***************************************************************************)
Call(fn, N, cid, ret, rn, in, out, preOut, OutOps, pre, preLen, calls) ==
  [fn |-> fn, N |-> N, cid |-> cid, ret |-> ret, rn |-> rn, in |-> in,
   out |-> out, preOut |-> preOut, OutOps |-> OutOps, pre |-> pre,
   preLen |-> preLen, calls |-> calls]

NoNode == MkNode("", FALSE, <<>>, <<>>, NoImm, -1, "", -1)

NoVals == <<NullVal, NullVal>>

ConstraintIDs == {"Constraint_i", "Constraint_m", "Constraint_o"}

\* values a caller holds in the two reference parameters before the call
InVals == {NoVals, <<<<2, 0>>, <<3, 0>>>>}

\* operand vectors a caller passes: 0..MaxPreOps operands already in it
PreOuts == {[i \in 1..k |-> <<1, 0>>] : k \in 0..MaxPreOps}

BoolStr(b) == IF b THEN "true" ELSE "false"

Init ==
  /\ PtrVT \in VTs
  /\ dag \in InitDags(PtrVT)
  /\ last = Call("none", 0, "", "none", 0, NoVals, NoVals, <<>>, <<>>,
                 NoNode, 0, <<>>)

DoSelect(N) ==
  LET r == Select(dag, N, PtrVT)
  IN  /\ dag' = r.g
      /\ last' = Call("Select", N, "", r.kind, r.n, NoVals, NoVals, <<>>,
                      <<>>, dag[N], Len(dag), <<>>)
      /\ UNCHANGED PtrVT

DoSelectADDRri(N, in) ==
  LET r == SelectADDRri(dag, <<N, 0>>, in[1], in[2], PtrVT)
  IN  /\ dag' = r.g
      /\ last' = Call("SelectADDRri", N, "", BoolStr(r.ret), 0, in,
                      <<r.a, r.b>>, <<>>, <<>>, dag[N], Len(dag), <<>>)
      /\ UNCHANGED PtrVT

DoSelectADDRrr(N, in) ==
  LET r == SelectADDRrr(dag, <<N, 0>>, in[1], in[2], PtrVT)
  IN  /\ dag' = r.g
      /\ last' = Call("SelectADDRrr", N, "", BoolStr(r.ret), 0, in,
                      <<r.a, r.b>>, <<>>, <<>>, dag[N], Len(dag), <<>>)
      /\ UNCHANGED PtrVT

DoSelectInlineAsmMemoryOperand(N, cid, Out) ==
  LET r == SelectInlineAsmMemoryOperand(dag, <<N, 0>>, cid, Out, PtrVT)
  IN  /\ dag' = r.g
      /\ last' = Call("SelectInlineAsmMemoryOperand", N, cid, BoolStr(r.ret),
                      0, NoVals, NoVals, Out, r.out, dag[N], Len(dag),
                      r.calls)
      /\ UNCHANGED PtrVT

Next ==
  \/ \E N \in Nodes(dag) : DoSelect(N)
  \/ \E N \in InputNodes, in \in InVals : DoSelectADDRri(N, in)
  \/ \E N \in InputNodes, in \in InVals : DoSelectADDRrr(N, in)
  \/ \E N \in InputNodes, cid \in ConstraintIDs, Out \in PreOuts :
       DoSelectInlineAsmMemoryOperand(N, cid, Out)

Spec == Init /\ [][Next]_vars

(***************************************************************************)
(* Vocabulary of the properties.                                           *)
(***************************************************************************)
\* the integer denoted by a constant pattern that is the sign extension
\* of its low 32 bits
ValueOf(ap) == SignedOf32(<<ap[1], ap[2]>>)

InSigned13(c) == -4096 <= c /\ c <= 4095

Recognized == {"Constraint_i", "Constraint_m"}

\* the last call was fn on an add whose second operand is a constant node
OnAddConst(fn) ==
  /\ last.fn = fn
  /\ ~last.pre.machine
  /\ last.pre.opc = "ADD"
  /\ dag[last.pre.ops[2][1]].opc = "Constant"

LastX == last.pre.ops[1]
LastY == last.pre.ops[2]
LastC == ValueOf(dag[LastY[1]].imm)

\* v is a target constant of type i32 denoting c
IsTargetConstant(v, c) ==
  /\ v # NullVal
  /\ dag[v[1]].opc = "TargetConstant"
  /\ ~dag[v[1]].machine
  /\ dag[v[1]].vts = <<"i32">>
  /\ SignedOf32(dag[v[1]].imm) = c

\* v is the target frame-index operand of slot fi
IsTargetFrameIndex(v, fi) ==
  /\ v # NullVal
  /\ dag[v[1]].opc = "TargetFrameIndex"
  /\ ~dag[v[1]].machine
  /\ dag[v[1]].idx = fi

IsRegister(v, r) ==
  /\ v # NullVal
  /\ dag[v[1]].opc = "Register"
  /\ ~dag[v[1]].machine
  /\ dag[v[1]].reg = r

IsRawFrameIndex(v) == v # NullVal /\ getOpcode(dag, v) = "FrameIndex"
IsLo(v) == v # NullVal /\ getOpcode(dag, v) = "SPISD::Lo"

\* C1 as stated: for an add of X and a constant C, SelectADDRrr fails and
\* SelectADDRri succeeds with base X and offset C iff C is in
\* [-4096, 4095]; outside it SelectADDRrr succeeds with (X, constant node)
C1_AsStated ==
  /\ OnAddConst("SelectADDRrr") =>
       IF InSigned13(LastC) THEN last.ret = "false"
       ELSE last.ret = "true" /\ last.out = <<LastX, LastY>>
  /\ OnAddConst("SelectADDRri") =>
       (InSigned13(LastC) <=>
          /\ last.ret = "true"
          /\ last.out[1] = LastX
          /\ IsTargetConstant(last.out[2], LastC))

\* C1 (amended): for an add of X and a constant C, SelectADDRrr fails and
\* SelectADDRri succeeds with offset C and base X (the target frame-index
\* operand of X's slot when X is a frame slot) iff C is in [-4096, 4095];
\* outside that range SelectADDRrr succeeds with (X, constant node) unless
\* X is a relocation low-part marker, for which it fails
C1_Precedence ==
  /\ OnAddConst("SelectADDRrr") =>
       IF InSigned13(LastC) THEN last.ret = "false"
       ELSE IF IsLo(LastX) THEN last.ret = "false" /\ last.out = last.in
       ELSE last.ret = "true" /\ last.out = <<LastX, LastY>>
  /\ OnAddConst("SelectADDRri") =>
       (InSigned13(LastC) <=>
          /\ last.ret = "true"
          /\ IF IsRawFrameIndex(LastX)
             THEN IsTargetFrameIndex(last.out[1], dag[LastX[1]].idx)
             ELSE last.out[1] = LastX
          /\ IsTargetConstant(last.out[2], LastC))

C1_Witness ==
  /\ OnAddConst("SelectADDRri")
  /\ LastC < 0
  /\ InSigned13(LastC)
  /\ IsRawFrameIndex(LastX)
  /\ last.ret = "true"

\* the last call was the inline-asm resolver
OnInlineAsm == last.fn = "SelectInlineAsmMemoryOperand"

\* the operands the last resolver call appended
Appended == SubSeq(last.OutOps, Len(last.preOut) + 1, Len(last.OutOps))

\* C2 as stated: for a recognized constraint and any address the resolver
\* accepts and appends exactly two operands, the SelectADDRrr pair when
\* that form succeeds and otherwise the SelectADDRri pair, and both
\* appended operands are defined values
C2_TwoDefinedOperands ==
  (OnInlineAsm /\ last.cid \in Recognized) =>
    /\ last.ret = "false"
    /\ Len(last.OutOps) = Len(last.preOut) + 2
    /\ SubSeq(last.OutOps, 1, Len(last.preOut)) = last.preOut
    /\ Appended[1] # NullVal
    /\ Appended[2] # NullVal

\* C3: for a constraint outside {Constraint_i, Constraint_m} the resolver
\* rejects the request (returns true), leaves the operand vector as it
\* was, invokes neither addressing predicate and creates no node
C3_Rejection ==
  (OnInlineAsm /\ last.cid \notin Recognized) =>
    /\ last.ret = "true"
    /\ last.OutOps = last.preOut
    /\ last.calls = <<>>
    /\ Len(dag) = last.preLen
    /\ dag[last.N] = last.pre

C3_Witness ==
  /\ OnInlineAsm
  /\ last.cid = "Constraint_o"
  /\ last.preOut # <<>>
  /\ last.ret = "true"
  /\ last.pre.opc = "ADD"

\* the last call was Select on a generic node of one of the opcodes opcs
OnSelect(opcs) ==
  last.fn = "Select" /\ ~last.pre.machine /\ last.pre.opc \in opcs

\* v is result 0 of a machine node opc with operands ops
IsMachine(v, opc, ops) ==
  /\ v # NullVal
  /\ v[2] = 0
  /\ dag[v[1]].machine
  /\ dag[v[1]].opc = opc
  /\ dag[v[1]].ops = ops

\* the token operand of the divide the last call produced
DivToken == dag[last.N].ops[3]
\* the CopyToReg node producing the token
DivCopy == dag[DivToken[1]]
\* the value the CopyToReg writes: the write-accumulator instruction
DivWrite == DivCopy.ops[3]
\* the seed: the first input of the write-accumulator instruction
DivSeed == dag[DivWrite[1]].ops[1]

\* C4: a 32-bit SDIV is replaced by SDIVrr and the value written to Y is
\* WRASRrr of the dividend shifted right arithmetically by 31; a 32-bit
\* UDIV is replaced by UDIVrr and the seed is the zero register G0; a
\* 64-bit division is handed to the generated matcher unrewritten, so
\* the rule fires only for a 32-bit result
C4_Division ==
  OnSelect({"SDIV", "UDIV"}) =>
    IF last.pre.vts = <<"i32">>
    THEN /\ last.ret = "node" /\ last.rn = last.N
         /\ dag[last.N].machine
         /\ dag[last.N].opc =
              (IF last.pre.opc = "SDIV" THEN "SDIVrr" ELSE "UDIVrr")
         /\ dag[last.N].ops[1] = last.pre.ops[1]
         /\ dag[last.N].ops[2] = last.pre.ops[2]
         /\ DivCopy.opc = "CopyToReg" /\ IsRegister(DivCopy.ops[2], "Y")
         /\ dag[DivWrite[1]].machine /\ dag[DivWrite[1]].opc = "WRASRrr"
         /\ IF last.pre.opc = "SDIV"
            THEN \E c \in Nodes(dag) :
                   /\ IsTargetConstant(<<c, 0>>, 31)
                   /\ IsMachine(DivSeed, "SRAri",
                                <<last.pre.ops[1], <<c, 0>>>>)
            ELSE IsRegister(DivSeed, "G0")
    ELSE /\ last.pre.vts = <<"i64">>
         /\ last.ret = "SelectCode" /\ last.rn = last.N
         /\ dag[last.N] = last.pre
         /\ Len(dag) = last.preLen

C4_Witness ==
  /\ OnSelect({"SDIV"})
  /\ last.pre.vts = <<"i32">>
  /\ last.ret = "node"
  /\ dag[last.N].opc = "SDIVrr"

\* the multiply instruction the last call created
MulNode == dag[last.N].ops[2][1]

\* C5: a MULHU / MULHS node is replaced by RDASR reading register Y with
\* result 1 of the multiply as its second input; the multiply is UMULrr
\* for MULHU and SMULrr for MULHS, and no node uses its result 0
C5_MulHigh ==
  OnSelect({"MULHU", "MULHS"}) =>
    /\ last.ret = "node" /\ last.rn = last.N
    /\ dag[last.N].machine /\ dag[last.N].opc = "RDASR"
    /\ Len(dag[last.N].ops) = 2
    /\ IsRegister(dag[last.N].ops[1], "Y")
    /\ dag[last.N].ops[2][2] = 1
    /\ dag[MulNode].machine
    /\ dag[MulNode].opc =
         (IF last.pre.opc = "MULHU" THEN "UMULrr" ELSE "SMULrr")
    /\ dag[MulNode].ops = last.pre.ops
    /\ dag[MulNode].vts = <<"i32", "Glue">>
    /\ \A n \in Nodes(dag) : \A k \in 1..Len(dag[n].ops) :
         dag[n].ops[k] # <<MulNode, 0>>

C5_Witness ==
  /\ OnSelect({"MULHS"})
  /\ dag[last.N].opc = "RDASR"
  /\ dag[MulNode].opc = "SMULrr"

\* C6: a Select step on a node that is already a machine node returns
\* nullptr and changes nothing in the DAG but that node's NodeId, which
\* becomes -1
C6_Idempotent ==
  [][(last'.fn = "Select" /\ last'.N \in Nodes(dag)
        /\ dag[last'.N].machine /\ last'.pre = dag[last'.N]) =>
       /\ last'.ret = "nullptr"
       /\ dag' = [dag EXCEPT ![last'.N].id = -1]]_vars

\* Select was called again on a node the dispatcher had rewritten itself
C6_Witness ==
  /\ last.fn = "Select"
  /\ last.pre.machine
  /\ last.pre.opc \in {"SDIVrr", "UDIVrr", "RDASR"}
  /\ last.ret = "nullptr"

\* the ISD opcode of the node the last call was made on
PreOpc == IF last.pre.machine THEN "MachineOpcode" ELSE last.pre.opc

\* C7: on a bare frame slot SelectADDRri succeeds with base = the target
\* frame-index operand of the same slot (a node other than the frame-slot
\* node) and offset = target constant 0, and SelectADDRrr fails
C7_FrameSlot ==
  /\ (last.fn = "SelectADDRri" /\ PreOpc = "FrameIndex") =>
       /\ last.ret = "true"
       /\ IsTargetFrameIndex(last.out[1], last.pre.idx)
       /\ last.out[1] # <<last.N, 0>>
       /\ IsTargetConstant(last.out[2], 0)
  /\ (last.fn = "SelectADDRrr" /\ PreOpc = "FrameIndex") =>
       /\ last.ret = "false"
       /\ last.out = last.in

C7_Witness ==
  /\ last.fn = "SelectADDRri"
  /\ PreOpc = "FrameIndex"
  /\ last.pre.idx = 1
  /\ last.ret = "true"

\* the last call was fn on the add of a frame slot and the constant c
OnFramePlus(fn, c) ==
  OnAddConst(fn) /\ IsRawFrameIndex(LastX) /\ LastC = c

\* the part of C8 about the constant 16
C8_Small ==
  /\ OnFramePlus("SelectADDRrr", 16) => last.ret = "false"
  /\ OnFramePlus("SelectADDRri", 16) =>
       /\ last.ret = "true"
       /\ IsTargetFrameIndex(last.out[1], dag[LastX[1]].idx)
       /\ IsTargetConstant(last.out[2], 16)

\* C8 as stated: frame slot + 16 is rejected by SelectADDRrr and resolved
\* by SelectADDRri to (target frame index, 16); frame slot + 8192 is
\* accepted by SelectADDRrr, which hands the frame slot on as a
\* frame-index operand and not as the raw frame-slot node
C8_AsStated ==
  /\ C8_Small
  /\ OnFramePlus("SelectADDRrr", 8192) =>
       /\ last.ret = "true"
       /\ ~IsRawFrameIndex(last.out[1])
       /\ IsTargetFrameIndex(last.out[1], dag[LastX[1]].idx)

\* C8 (amended): frame slot + 16 is rejected by SelectADDRrr and resolved
\* by SelectADDRri to (target frame index, 16); frame slot + 8192 is
\* accepted by SelectADDRrr with the two operands of the add as they are:
\* the raw frame-slot node and the constant node 8192
C8_EndToEnd ==
  /\ C8_Small
  /\ OnFramePlus("SelectADDRrr", 8192) =>
       /\ last.ret = "true"
       /\ last.out = <<LastX, LastY>>
       /\ IsRawFrameIndex(last.out[1])
       /\ dag[last.out[2][1]].opc = "Constant"
       /\ ValueOf(dag[last.out[2][1]].imm) = 8192

C8_Witness ==
  /\ OnFramePlus("SelectADDRrr", 8192)
  /\ last.ret = "true"
  /\ last.out[1] = LastX

\* the node of the last call is an add that SelectADDRri decomposes
PreAddDecomposed ==
  /\ PreOpc = "ADD"
  /\ \/ /\ dag[LastY[1]].opc \in {"Constant", "TargetConstant"}
        /\ InSigned13(LastC)
     \/ IsLo(LastX)
     \/ IsLo(LastY)

\* C9: SelectADDRri fails exactly on a direct relocation target, and then
\* leaves Base and Offset as the caller had them; on an address that is
\* neither a frame slot nor an add with a signed 13-bit constant second
\* operand nor an add with a low-part marker operand it succeeds with
\* base = the address itself and offset = target constant 0
C9_RegImm ==
  last.fn = "SelectADDRri" =>
    IF PreOpc \in DirectOpcs
    THEN last.ret = "false" /\ last.out = last.in
    ELSE /\ last.ret = "true"
         /\ (PreOpc \notin {"FrameIndex", "TargetFrameIndex"}
               /\ ~PreAddDecomposed) =>
              /\ last.out[1] = <<last.N, 0>>
              /\ IsTargetConstant(last.out[2], 0)

C9_Witness ==
  /\ last.fn = "SelectADDRri"
  /\ PreOpc = "TargetGlobalTLSAddress"
  /\ last.in # NoVals
  /\ last.ret = "false"

\* the nodes the operands of n come from
Operands(n) == {dag[n].ops[k][1] : k \in 1..Len(dag[n].ops)}

RECURSIVE ReachFrom(_, _)
\* the nodes reached from the set S over at most k more operand edges
ReachFrom(S, k) ==
  IF k = 0 THEN S
  ELSE ReachFrom(S \cup UNION {Operands(n) : n \in S}, k - 1)

\* m must execute before n: m is reached from n over operand edges
Before(m, n) == m \in ReachFrom(Operands(n), Len(dag))

Acyclic == \A n \in Nodes(dag) : ~Before(n, n)

\* C10: the divide of a lowered 32-bit division has exactly the inputs
\* (dividend, divisor, token), the token is the glue result of the
\* CopyToReg that writes the result of WRASRrr to Y, WRASRrr has the
\* inputs (seed, G0); so WRASRrr precedes the CopyToReg, which precedes
\* the divide, in every order respecting the edges, and the DAG is acyclic
C10_DivOrdering ==
  (OnSelect({"SDIV", "UDIV"}) /\ last.pre.vts = <<"i32">>) =>
    /\ Len(dag[last.N].ops) = 3
    /\ SubSeq(dag[last.N].ops, 1, 2) = last.pre.ops
    /\ DivToken[2] = 1
    /\ DivCopy.opc = "CopyToReg" /\ ~DivCopy.machine
    /\ DivCopy.vts[DivToken[2] + 1] = "Glue"
    /\ IsRegister(DivCopy.ops[2], "Y")
    /\ dag[DivWrite[1]].machine /\ dag[DivWrite[1]].opc = "WRASRrr"
    /\ Len(dag[DivWrite[1]].ops) = 2
    /\ IsRegister(dag[DivWrite[1]].ops[2], "G0")
    /\ Before(DivWrite[1], DivToken[1])
    /\ Before(DivToken[1], last.N)
    /\ ~Before(last.N, DivWrite[1])
    /\ Acyclic

C10_Witness ==
  /\ OnSelect({"UDIV"})
  /\ last.pre.vts = <<"i32">>
  /\ dag[last.N].opc = "UDIVrr"
  /\ DivCopy.opc = "CopyToReg"

\* in the DAG g the pair out is the fallback of SelectADDRri on node n:
\* the address itself and target constant 0
IsFallback(g, n, out) ==
  /\ out[1] = <<n, 0>>
  /\ out[2] # NullVal
  /\ g[out[2][1]].opc = "TargetConstant"
  /\ ~g[out[2][1]].machine
  /\ SignedOf32(g[out[2][1]].imm) = 0

\* the cases in which SelectADDRrr is to fail on a non-direct address: a
\* bare frame slot, an add with a signed 13-bit constant second operand,
\* an add with a low-part marker operand
DeferredToRegImm == PreOpc = "FrameIndex" \/ PreAddDecomposed

\* C11: on an address that is no direct relocation target SelectADDRrr
\* succeeds iff SelectADDRri yields only its fallback (address, 0);
\* SelectADDRrr fails exactly on a bare frame slot, an add with a signed
\* 13-bit constant second operand and an add with a low-part marker
\* operand, and there SelectADDRri succeeds with another decomposition;
\* SelectADDRri never fails on such an address
C11_Complementary ==
  /\ (last.fn = "SelectADDRrr" /\ PreOpc \notin DirectOpcs) =>
       LET ri == SelectADDRri(dag, <<last.N, 0>>, NullVal, NullVal, PtrVT)
       IN  /\ ri.ret
           /\ (last.ret = "true") <=> IsFallback(ri.g, last.N, <<ri.a, ri.b>>)
           /\ (last.ret = "false") <=> DeferredToRegImm
           /\ (last.ret = "false") => last.out = last.in
  /\ (last.fn = "SelectADDRri" /\ PreOpc \notin DirectOpcs) =>
       LET rr == SelectADDRrr(dag, <<last.N, 0>>, NullVal, NullVal, PtrVT)
       IN  /\ last.ret = "true"
           /\ rr.ret <=> IsFallback(dag, last.N, last.out)
           /\ ~rr.ret <=> DeferredToRegImm

\* SelectADDRrr was refused on an add whose second operand is a low-part
\* marker and whose first is not
C11_Witness ==
  /\ last.fn = "SelectADDRrr"
  /\ PreOpc = "ADD"
  /\ IsLo(LastY)
  /\ ~IsLo(LastX)
  /\ last.ret = "false"

====
